---- MODULE Spec2Model ----
(***************************************************************************)
(* Model of the session state of the streamlit-gantt application           *)
(* (utils/state.py), the import pipeline (utils/io.py), the date functions *)
(* of the chart (utils/dates.py) and the two handlers that change the data *)
(* (components/editor.py, components/filters.py).                          *)
(*                                                                         *)
(* DataFrames are Python objects: the model keeps a heap of frame objects  *)
(* and lets the session state and the history stacks hold addresses, so    *)
(* that copies, aliasing and in-place writes are what the code makes them. *)
(* Japanese string literals of the source are transliterated.              *)
(***************************************************************************)
EXTENDS Integers, Sequences, FiniteSets, TLC

VARIABLES
    heap,          \* address -> DataFrame object [columns, rows]
    projects_df,   \* st.session_state["projects_df"]: an address
    segments_df,   \* st.session_state["segments_df"]: an address
    history,       \* st.session_state["history"]: list of snapshots
    future,        \* st.session_state["future"]: list of snapshots
    nextUuid,      \* number of uuid4() values drawn so far, plus one
    steps,         \* number of operations performed
    chart          \* the date computation of the chart: function, arguments, value

vars == <<heap, projects_df, segments_df, history, future, nextUuid, steps, chart>>

\* The session state as one value, as a handler finds it; every operation is
\* a function on it. `notice` is what the handler reports to the page
\* (st.warning, st.error, st.success, or the exception that ended the run);
\* the page keeps no message from one run to the next.
State ==
    [heap |-> heap, projects_df |-> projects_df, segments_df |-> segments_df,
     history |-> history, future |-> future, nextUuid |-> nextUuid,
     notice |-> "none"]

----------------------------------------------------------------------------
\* Bounds of the model.

\* Operations per behaviour of Spec.
MaxSteps == 3
\* Rows of an uploaded file.
MaxRows == 3
\* Free operations that precede the run of saves in SpecEvict.
MaxWarm == 1
\* Saves of the run in SpecEvict beyond MAX_HISTORY.
MaxOverflow == 5
\* Operations that follow the saves filling the undo stack in SpecFullStack.
MaxTail == 4
\* Days a window of SpecChart can start at.
MaxStarts == 45
\* Longest window of SpecChart, in days past its first.
MaxSpan == 40
\* Days the arguments of clip_to_range are drawn from in SpecChart.
MaxClipDays == 5

----------------------------------------------------------------------------
\* Program constants.

MAX_HISTORY == 20

DEFAULT_COLOR == "#f97316"

REQUIRED_COLUMNS ==
    <<"name", "client", "site", "work_type", "owner", "progress",
      "start_date", "end_date">>

PROGRESS_OPTIONS == <<"yotei", "shinko", "kanryo">>

PROJECT_COLUMNS ==
    {"id", "name", "client", "site", "work_type", "owner", "progress",
     "note", "color"}

SEGMENT_COLUMNS == {"segment_id", "project_id", "label", "start_date", "end_date"}

Range(seq) == {seq[i] : i \in DOMAIN seq}

Front(seq) == SubSeq(seq, 1, Len(seq) - 1)

Last(seq) == seq[Len(seq)]

----------------------------------------------------------------------------
\* Dates. A date-like value is a calendar day (its proleptic ordinal, as
\* datetime.date.toordinal gives it) with a time of day in hours; a
\* normalized Timestamp has time of day 0.

Day(ordinal) == [day |-> ordinal, tod |-> 0]

DayAt(ordinal, hour) == [day |-> ordinal, tod |-> hour]

\* Timestamp comparison a < b.
TsLess(a, b) == a.day < b.day \/ (a.day = b.day /\ a.tod < b.tod)

to_timestamp(value) == [day |-> value.day, tod |-> 0]

\* validate_range skipping the comparison.
validate_range_unchecked(start, end) ==
    [ok |-> TRUE, start_ts |-> to_timestamp(start), end_ts |-> to_timestamp(end)]

\* validate_range refusing a range of a single day as well.
validate_range_strict(start, end) ==
    LET start_ts == to_timestamp(start)
        end_ts == to_timestamp(end)
    IN  IF ~TsLess(start_ts, end_ts)
        THEN [ok |-> FALSE, start_ts |-> start_ts, end_ts |-> end_ts]
        ELSE [ok |-> TRUE, start_ts |-> start_ts, end_ts |-> end_ts]

\* ok = FALSE stands for the ValueError.
validate_range(start, end) ==
    LET start_ts == to_timestamp(start)
        end_ts == to_timestamp(end)
    IN  IF TsLess(end_ts, start_ts)
        THEN [ok |-> FALSE, start_ts |-> start_ts, end_ts |-> end_ts]
        ELSE [ok |-> TRUE, start_ts |-> start_ts, end_ts |-> end_ts]

----------------------------------------------------------------------------
\* The calendar. pandas keeps a Timestamp as a point in time and derives its
\* year, month and day from it; here the point in time is the ordinal of the
\* day, and the proleptic Gregorian calendar gives the fields.

\* ts.year, ts.month, ts.day as one record.
Civil(ts) ==
    LET z == ts.day + 305
        era == z \div 146097
        doe == z - era * 146097
        yoe == (doe - doe \div 1460 + doe \div 36524 - doe \div 146096) \div 365
        doy == doe - (365 * yoe + yoe \div 4 - yoe \div 100)
        mp == (5 * doy + 2) \div 153
        m == IF mp < 10 THEN mp + 3 ELSE mp - 9
    IN  [year |-> yoe + era * 400 + (IF m <= 2 THEN 1 ELSE 0),
         month |-> m,
         day |-> doy - (153 * mp + 2) \div 5 + 1]

\* pd.Timestamp(year=..., month=..., day=...).
Timestamp(year, month, day) ==
    LET y == IF month <= 2 THEN year - 1 ELSE year
        era == y \div 400
        yoe == y - era * 400
        mp == IF month > 2 THEN month - 3 ELSE month + 9
        doy == (153 * mp + 2) \div 5 + day - 1
        doe == yoe * 365 + yoe \div 4 - yoe \div 100 + doy
    IN  [day |-> era * 146097 + doe - 305, tod |-> 0]

\* ts.weekday(): Monday is 0.
weekday(ts) == (ts.day + 6) % 7

\* ts + pd.Timedelta(days=n).
PlusDays(ts, n) == [ts EXCEPT !.day = @ + n]

\* ts + pd.offsets.MonthBegin(1), for ts the first day of a month.
PlusMonthBegin(ts) ==
    LET c == Civil(ts)
    IN  IF c.month = 12 THEN Timestamp(c.year + 1, 1, 1)
        ELSE Timestamp(c.year, c.month + 1, 1)

\* a <= b on Timestamps.
TsLeq(a, b) == ~TsLess(b, a)

\* Python max(a, b) and min(a, b): the first argument wins a tie.
TsMax(a, b) == IF TsLess(a, b) THEN b ELSE a

TsMin(a, b) == IF TsLess(b, a) THEN b ELSE a

month_start(ts) ==
    LET c == Civil(to_timestamp(ts)) IN Timestamp(c.year, c.month, 1)

month_end(ts) ==
    LET first == month_start(ts)
        next_month == PlusMonthBegin(first)
    IN  PlusDays(next_month, -1)

RECURSIVE MonthsFrom(_, _)
\* The loop of iter_months: the values it yields from `current` on.
MonthsFrom(current, end_ts) ==
    IF TsLeq(current, end_ts)
    THEN <<current>> \o MonthsFrom(PlusMonthBegin(current), end_ts)
    ELSE <<>>

iter_months(start, end) == MonthsFrom(month_start(start), month_start(end))

make_month_spans(start, end) ==
    LET start_ts == to_timestamp(start)
        end_ts == to_timestamp(end)
        months == iter_months(start_ts, end_ts)
    IN  [i \in DOMAIN months |->
            <<TsMax(start_ts, months[i]), TsMin(end_ts, month_end(months[i]))>>]

\* first + (last - first) / 2, both at midnight: half of an odd number of
\* days ends at noon.
Midpoint(first, last) ==
    LET n == last.day - first.day
    IN  [day |-> first.day + n \div 2, tod |-> IF n % 2 = 1 THEN 12 ELSE 0]

\* f"{first.year}nen{first.month}gatsu".
MonthText(first) == <<Civil(first).year, "nen", Civil(first).month, "gatsu">>

make_month_labels(start, end) ==
    LET months == iter_months(start, end)
    IN  [i \in DOMAIN months |->
            <<Midpoint(months[i], month_end(months[i])), MonthText(months[i])>>]

RECURSIVE TickDays(_, _, _, _, _, _)
\* The inner loop of make_tickvals, from the j-th of `days` on, for the month
\* that starts at `first`.
TickDays(tickvals, first, days, j, start_ts, end_ts) ==
    IF j > Len(days) THEN tickvals
    ELSE LET last == month_end(first)
             tick == Timestamp(Civil(first).year, Civil(first).month, days[j])
             appended ==
                 IF days[j] > Civil(last).day THEN tickvals
                 ELSE IF TsLeq(start_ts, tick) /\ TsLeq(tick, end_ts)
                      THEN IF tickvals # <<>> /\ tick = Last(tickvals)
                           THEN tickvals
                           ELSE Append(tickvals, tick)
                      ELSE tickvals
         IN  TickDays(appended, first, days, j + 1, start_ts, end_ts)

RECURSIVE TickMonths(_, _, _, _, _)
\* The outer loop of make_tickvals, from the i-th month on.
TickMonths(tickvals, months, i, start_ts, end_ts) ==
    IF i > Len(months) THEN tickvals
    ELSE LET days == <<6, 12, 18, 24, Civil(month_end(months[i])).day>>
         IN  TickMonths(TickDays(tickvals, months[i], days, 1, start_ts, end_ts),
                        months, i + 1, start_ts, end_ts)

\* make_tickvals that leaves out a tick on the last day of the window.
make_tickvals_open_end(start, end) ==
    LET start_ts == to_timestamp(start)
        end_ts == to_timestamp(end)
    IN  TickMonths(<<>>, iter_months(start_ts, end_ts), 1, start_ts, PlusDays(end_ts, -1))

make_tickvals(start, end) ==
    LET start_ts == to_timestamp(start)
        end_ts == to_timestamp(end)
    IN  TickMonths(<<>>, iter_months(start_ts, end_ts), 1, start_ts, end_ts)

RECURSIVE MondaysFrom(_, _)
\* The loop of make_week_lines.
MondaysFrom(current, end_ts) ==
    IF TsLeq(current, end_ts)
    THEN <<current>> \o MondaysFrom(PlusDays(current, 7), end_ts)
    ELSE <<>>

\* make_week_lines that starts a week after a window that opens on a Monday.
make_week_lines_skip_start(start, end) ==
    LET start_ts == to_timestamp(start)
        end_ts == to_timestamp(end)
        offset_days == 7 - weekday(start_ts)
        first_monday == PlusDays(start_ts, offset_days)
    IN  MondaysFrom(first_monday, end_ts)

make_week_lines(start, end) ==
    LET start_ts == to_timestamp(start)
        end_ts == to_timestamp(end)
        offset_days == (7 - weekday(start_ts)) % 7
        first_monday == PlusDays(start_ts, offset_days)
    IN  MondaysFrom(first_monday, end_ts)

\* What a function that returns a pair of Timestamps gives back: the pair,
\* None, or the ValueError it raises.
Pair(a, b) == [kind |-> "range", range |-> <<a, b>>]

None == [kind |-> "None", range |-> <<>>]

ValueError == [kind |-> "ValueError", range |-> <<>>]

\* validate_range as its caller sees it.
validated(start, end) ==
    LET r == validate_range(start, end)
    IN  IF r.ok THEN Pair(r.start_ts, r.end_ts) ELSE ValueError

\* clip_to_range that takes a segment touching the window for one outside it.
clip_to_range_strict(start, end, view_start, view_end) ==
    LET r == validate_range(start, end)
        view_start_ts == to_timestamp(view_start)
        view_end_ts == to_timestamp(view_end)
    IN  IF ~r.ok THEN ValueError
        ELSE IF TsLeq(r.end_ts, view_start_ts) \/ TsLeq(view_end_ts, r.start_ts)
             THEN None
             ELSE Pair(TsMax(r.start_ts, view_start_ts), TsMin(r.end_ts, view_end_ts))

\* clip_to_range that ends the clipped range the day before the window ends.
clip_to_range_shrinking(start, end, view_start, view_end) ==
    LET r == validate_range(start, end)
        view_start_ts == to_timestamp(view_start)
        view_end_ts == to_timestamp(view_end)
    IN  IF ~r.ok THEN ValueError
        ELSE IF TsLess(r.end_ts, view_start_ts) \/ TsLess(view_end_ts, r.start_ts)
             THEN None
             ELSE Pair(TsMax(r.start_ts, view_start_ts),
                       TsMin(r.end_ts, PlusDays(view_end_ts, -1)))

clip_to_range(start, end, view_start, view_end) ==
    LET r == validate_range(start, end)
        view_start_ts == to_timestamp(view_start)
        view_end_ts == to_timestamp(view_end)
    IN  IF ~r.ok THEN ValueError
        ELSE IF TsLess(r.end_ts, view_start_ts) \/ TsLess(view_end_ts, r.start_ts)
             THEN None
             ELSE Pair(TsMax(r.start_ts, view_start_ts), TsMin(r.end_ts, view_end_ts))

----------------------------------------------------------------------------
\* Identifiers. load_sample_data numbers the projects PRJ-001, PRJ-002, ...;
\* every other id is a uuid4, modelled as the next unused number.

ProjectId(idx) == <<"PRJ", idx + 1>>

Uuid(n) == <<"uuid", n>>

----------------------------------------------------------------------------
\* The heap of DataFrame objects.

\* The lowest address no object lives at.
FreshAddr(h) ==
    CHOOSE n \in 1..(Cardinality(DOMAIN h) + 1) :
        n \notin DOMAIN h /\ \A m \in 1..(n - 1) : m \in DOMAIN h

\* pandas DataFrame.copy(deep=True): a new object with the same contents.
DeepCopy(h, addr) ==
    LET a == FreshAddr(h) IN [heap |-> h @@ (a :> h[addr]), addr |-> a]

\* A new DataFrame object holding `frame`.
NewFrame(h, frame) ==
    LET a == FreshAddr(h) IN [heap |-> h @@ (a :> frame), addr |-> a]

\* pd.DataFrame(rows): the columns are the keys of the rows; no rows, no columns.
DataFrame(rows) ==
    [columns |-> IF rows = <<>> THEN {} ELSE DOMAIN rows[1], rows |-> rows]

\* Addresses a snapshot list refers to.
StackRefs(stack) ==
    {stack[i].projects : i \in DOMAIN stack} \cup {stack[i].segments : i \in DOMAIN stack}

\* Addresses the session state refers to.
Refs(s) ==
    {s.projects_df, s.segments_df} \cup StackRefs(s.history) \cup StackRefs(s.future)

\* Objects nothing refers to are freed when the handler returns.
Collect(s) == [s EXCEPT !.heap = [a \in Refs(s) |-> s.heap[a]]]

\* The live collections by value.
Live(s) == [projects |-> s.heap[s.projects_df], segments |-> s.heap[s.segments_df]]

\* A snapshot by value.
SnapValue(s, snap) == [projects |-> s.heap[snap.projects], segments |-> s.heap[snap.segments]]

\* A snapshot list by value.
StackValue(s, stack) == [i \in DOMAIN stack |-> SnapValue(s, stack[i])]

----------------------------------------------------------------------------
\* utils/state.py

\* _snapshot keeping references to the live frames instead of copying them.
snapshot_shallow(s) ==
    [heap |-> s.heap, snap |-> [projects |-> s.projects_df, segments |-> s.segments_df]]

_snapshot(s) ==
    LET p == DeepCopy(s.heap, s.projects_df)
        g == DeepCopy(p.heap, s.segments_df)
    IN  [heap |-> g.heap, snap |-> [projects |-> p.addr, segments |-> g.addr]]

\* push_history dropping the newest entry instead of the oldest.
push_history_drop_newest(s) ==
    LET r == _snapshot(s)
        appended == Append(s.history, r.snap)
        kept == IF Len(appended) > MAX_HISTORY THEN Front(appended) ELSE appended
    IN  [s EXCEPT !.heap = r.heap, !.history = kept, !.future = <<>>]

\* push_history leaving the redo list alone.
push_history_keep_future(s) ==
    LET r == _snapshot(s)
        appended == Append(s.history, r.snap)
        kept == IF Len(appended) > MAX_HISTORY THEN Tail(appended) ELSE appended
    IN  [s EXCEPT !.heap = r.heap, !.history = kept]

push_history(s) ==
    LET r == _snapshot(s)
        appended == Append(s.history, r.snap)
        kept == IF Len(appended) > MAX_HISTORY THEN Tail(appended) ELSE appended
    IN  [s EXCEPT !.heap = r.heap, !.history = kept, !.future = <<>>]

replace_data(s, projects, segments, push) ==
    LET s1 == IF push THEN push_history(s) ELSE s
        p == NewFrame(s1.heap, projects)
        g == NewFrame(p.heap, segments)
    IN  [s1 EXCEPT !.heap = g.heap, !.projects_df = p.addr, !.segments_df = g.addr]

\* frame.loc[mask, key] = value for every key of `updates` that is a column,
\* mask being frame[idcol] == id.
SetWhere(frame, idcol, id, updates) ==
    [frame EXCEPT !.rows =
        [i \in DOMAIN frame.rows |->
            IF frame.rows[i][idcol] = id
            THEN [c \in DOMAIN frame.rows[i] |->
                    IF c \in DOMAIN updates /\ c \in frame.columns
                    THEN updates[c] ELSE frame.rows[i][c]]
            ELSE frame.rows[i]]]

\* update_project taking its snapshot after the change.
update_project_push_late(s, project_id, updates, push) ==
    IF "id" \notin s.heap[s.projects_df].columns
    THEN [s EXCEPT !.notice = "KeyError"]
    ELSE LET c == DeepCopy(s.heap, s.projects_df)
             h == [c.heap EXCEPT ![c.addr] = SetWhere(@, "id", project_id, updates)]
             s1 == [s EXCEPT !.heap = h, !.projects_df = c.addr]
         IN  IF push THEN push_history(s1) ELSE s1

\* A frame without the "id" column makes projects_df["id"] raise KeyError,
\* after the snapshot was pushed.
update_project(s, project_id, updates, push) ==
    LET s1 == IF push THEN push_history(s) ELSE s
    IN  IF "id" \notin s1.heap[s1.projects_df].columns
        THEN [s1 EXCEPT !.notice = "KeyError"]
        ELSE LET c == DeepCopy(s1.heap, s1.projects_df)
                 h == [c.heap EXCEPT ![c.addr] = SetWhere(@, "id", project_id, updates)]
             IN  [s1 EXCEPT !.heap = h, !.projects_df = c.addr]

update_segment(s, segment_id, updates, push) ==
    LET s1 == IF push THEN push_history(s) ELSE s
    IN  IF "segment_id" \notin s1.heap[s1.segments_df].columns
        THEN [s1 EXCEPT !.notice = "KeyError"]
        ELSE LET c == DeepCopy(s1.heap, s1.segments_df)
                 h == [c.heap EXCEPT ![c.addr] = SetWhere(@, "segment_id", segment_id, updates)]
             IN  [s1 EXCEPT !.heap = h, !.segments_df = c.addr]

\* undo restoring the oldest entry of the history instead of the newest.
undo_restore_oldest(s) ==
    IF s.history = <<>>
    THEN [s EXCEPT !.notice = "nothing_to_undo"]
    ELSE LET snapshot == Head(s.history)
             r == _snapshot(s)
         IN  [s EXCEPT !.heap = r.heap,
                       !.future = Append(s.future, r.snap),
                       !.projects_df = snapshot.projects,
                       !.segments_df = snapshot.segments,
                       !.history = Tail(s.history)]

\* undo taking the redo snapshot after it restored the data.
undo_snapshot_late(s) ==
    IF s.history = <<>>
    THEN [s EXCEPT !.notice = "nothing_to_undo"]
    ELSE LET snapshot == Last(s.history)
             restored == [s EXCEPT !.projects_df = snapshot.projects,
                                   !.segments_df = snapshot.segments,
                                   !.history = Front(s.history)]
             r == _snapshot(restored)
         IN  [restored EXCEPT !.heap = r.heap, !.future = Append(s.future, r.snap)]

\* undo recording the redo snapshot before it looks at the history.
undo_push_first(s) ==
    LET r == _snapshot(s)
        s1 == [s EXCEPT !.heap = r.heap, !.future = Append(s.future, r.snap)]
    IN  IF s.history = <<>>
        THEN [s1 EXCEPT !.notice = "nothing_to_undo"]
        ELSE [s1 EXCEPT !.projects_df = Last(s.history).projects,
                        !.segments_df = Last(s.history).segments,
                        !.history = Front(s.history)]

\* undo leaving the restored snapshot on the undo stack.
undo_keep_history(s) ==
    IF s.history = <<>>
    THEN [s EXCEPT !.notice = "nothing_to_undo"]
    ELSE LET snapshot == Last(s.history)
             r == _snapshot(s)
         IN  [s EXCEPT !.heap = r.heap,
                       !.future = Append(s.future, r.snap),
                       !.projects_df = snapshot.projects,
                       !.segments_df = snapshot.segments]

undo(s) ==
    IF s.history = <<>>
    THEN [s EXCEPT !.notice = "nothing_to_undo"]
    ELSE LET snapshot == Last(s.history)
             r == _snapshot(s)
         IN  [s EXCEPT !.heap = r.heap,
                       !.future = Append(s.future, r.snap),
                       !.projects_df = snapshot.projects,
                       !.segments_df = snapshot.segments,
                       !.history = Front(s.history)]

\* push_history rebinds session_state["future"] to a new empty list; the last
\* assignment puts the popped list back.
\* redo leaving the redo stack as push_history left it: empty.
redo_drop_future(s) ==
    IF s.future = <<>>
    THEN [s EXCEPT !.notice = "nothing_to_redo"]
    ELSE LET snapshot == Last(s.future)
             s1 == push_history([s EXCEPT !.future = Front(s.future)])
         IN  [s1 EXCEPT !.projects_df = snapshot.projects,
                        !.segments_df = snapshot.segments]

redo(s) ==
    IF s.future = <<>>
    THEN [s EXCEPT !.notice = "nothing_to_redo"]
    ELSE LET snapshot == Last(s.future)
             popped == Front(s.future)
             s1 == push_history([s EXCEPT !.future = popped])
         IN  [s1 EXCEPT !.projects_df = snapshot.projects,
                        !.segments_df = snapshot.segments,
                        !.future = popped]

----------------------------------------------------------------------------
\* utils/io.py

\* The bundled data/sample_projects.csv: four rows with the columns
\* name, client, site, work_type, owner, progress, start_date, end_date.
SampleCsv ==
    <<[name |-> "P1", client |-> "C1", site |-> "S1", work_type |-> "kenchiku",
       owner |-> "O1", progress |-> "yotei",
       start_date |-> Day(739433), end_date |-> Day(739499)],
      [name |-> "P2", client |-> "C2", site |-> "S2", work_type |-> "doboku",
       owner |-> "O2", progress |-> "shinko",
       start_date |-> Day(739495), end_date |-> Day(739648)],
      [name |-> "P3", client |-> "C1", site |-> "S3", work_type |-> "sonota",
       owner |-> "O1", progress |-> "kanryo",
       start_date |-> Day(739433), end_date |-> Day(739483)],
      [name |-> "P4", client |-> "C3", site |-> "S4", work_type |-> "kenchiku",
       owner |-> "O2", progress |-> "yotei",
       start_date |-> Day(739648), end_date |-> Day(739797)]>>

\* One project and one segment per row, then the two demonstration segments.
load_sample_data(raw) ==
    LET n == Len(raw)
        projects_rows ==
            [i \in 1..n |->
                [id |-> ProjectId(i - 1), name |-> raw[i].name, client |-> raw[i].client,
                 site |-> raw[i].site, work_type |-> raw[i].work_type,
                 owner |-> raw[i].owner, progress |-> raw[i].progress,
                 note |-> "", color |-> DEFAULT_COLOR]]
        base ==
            [i \in 1..n |->
                [segment_id |-> Uuid(i), project_id |-> ProjectId(i - 1),
                 label |-> "kihon-koki",
                 start_date |-> raw[i].start_date, end_date |-> raw[i].end_date]]
        interior ==
            IF n > 0
            THEN <<[segment_id |-> Uuid(n + 1), project_id |-> projects_rows[1].id,
                    label |-> "naiso-koji",
                    start_date |-> Day(739483), end_date |-> Day(739499)]>>
            ELSE <<>>
        logistics ==
            IF n > 3
            THEN <<[segment_id |-> Uuid(n + 1 + Len(interior)),
                    project_id |-> projects_rows[4].id,
                    label |-> "setsubi-hannyu",
                    start_date |-> Day(739648), end_date |-> Day(739662)]>>
            ELSE <<>>
        segments_rows == base \o interior \o logistics
    IN  [projects |-> DataFrame(projects_rows), segments |-> DataFrame(segments_rows),
         nextUuid |-> Len(segments_rows) + 1]

\* row.get(key, default)
Get(row, key, default) == IF key \in DOMAIN row THEN row[key] ELSE default

\* df.rename(columns=mapping): a column named like a key of the mapping takes
\* the mapped name; the other columns keep theirs.
Renamed(mapping, c) == IF c \in DOMAIN mapping THEN mapping[c] ELSE c

rename(df, mapping) ==
    LET cols == {Renamed(mapping, c) : c \in df.columns}
    IN  [columns |-> cols,
         rows |-> [i \in DOMAIN df.rows |->
                    [c2 \in cols |->
                        df.rows[i][CHOOSE c \in df.columns : Renamed(mapping, c) = c2]]]]

Failed(error, uuid) ==
    [ok |-> FALSE, error |-> error, projects |-> DataFrame(<<>>),
     segments |-> DataFrame(<<>>), nextUuid |-> uuid]

\* The loop of transform_import from row i on.
RECURSIVE import_rows(_, _, _, _, _)
import_rows(records, i, projects_rows, segments_rows, uuid) ==
    IF i > Len(records.rows)
    THEN [ok |-> TRUE, error |-> "", projects |-> DataFrame(projects_rows),
          segments |-> DataFrame(segments_rows), nextUuid |-> uuid]
    ELSE LET row == records.rows[i]
             v == validate_range(row["start_date"], row["end_date"])
             project_id == Uuid(uuid)
             color == Get(row, "color", DEFAULT_COLOR)
         IN  IF ~v.ok
             THEN Failed("invalid_range", uuid)
             ELSE import_rows(records, i + 1,
                    Append(projects_rows,
                        [id |-> project_id, name |-> row["name"], client |-> row["client"],
                         site |-> row["site"], work_type |-> row["work_type"],
                         owner |-> row["owner"], progress |-> row["progress"],
                         note |-> Get(row, "note", ""),
                         color |-> IF color = "" THEN DEFAULT_COLOR ELSE color]),
                    Append(segments_rows,
                        [segment_id |-> Uuid(uuid + 1), project_id |-> project_id,
                         label |-> Get(row, "label", "koki"),
                         start_date |-> v.start_ts, end_date |-> v.end_ts]),
                    uuid + 2)

transform_import(df, mapping, uuid) ==
    LET missing == {f \in Range(REQUIRED_COLUMNS) : f \notin DOMAIN mapping}
        records == rename(df, mapping)
        required_missing == {c \in Range(REQUIRED_COLUMNS) : c \notin records.columns}
    IN  IF missing # {} THEN Failed("mapping_incomplete", uuid)
        ELSE IF required_missing # {} THEN Failed("missing_columns", uuid)
        ELSE import_rows(records, 1, <<>>, <<>>, uuid)

----------------------------------------------------------------------------
\* components/filters.py: the "import" button of _render_importer.

import_execute(s, df, mapping) ==
    LET result == transform_import(df, mapping, s.nextUuid)
    IN  IF ~result.ok
        THEN [s EXCEPT !.notice = result.error]
        ELSE [replace_data(s, result.projects, result.segments, TRUE)
                EXCEPT !.notice = "imported", !.nextUuid = result.nextUuid]

----------------------------------------------------------------------------
\* components/editor.py: render with the form submitted.

\* The rows of `frame` whose column `col` equals `value`.
Matching(frame, col, value) == SelectSeq(frame.rows, LAMBDA r : r[col] = value)

\* The save with each of the two updates taking a snapshot of its own.
editor_submit_push_each(s, segment_id, project, label, start_date, end_date, progress, note, color) ==
    LET v == validate_range(start_date, end_date)
    IN  IF ~v.ok
        THEN [s EXCEPT !.notice = "invalid_range"]
        ELSE LET s2 == update_segment(s, segment_id,
                         [label |-> label, start_date |-> v.start_ts, end_date |-> v.end_ts],
                         TRUE)
                 s3 == update_project(s2, project["id"],
                         [progress |-> progress, note |-> note, color |-> color],
                         TRUE)
             IN  [s3 EXCEPT !.notice = "saved"]

\* The save once the form values are in hand.
editor_submit(s, segment_id, project, label, start_date, end_date, progress, note, color) ==
    LET v == validate_range(start_date, end_date)
    IN  IF ~v.ok
        THEN [s EXCEPT !.notice = "invalid_range"]
        ELSE LET s1 == push_history(s)
                 s2 == update_segment(s1, segment_id,
                         [label |-> label, start_date |-> v.start_ts, end_date |-> v.end_ts],
                         FALSE)
                 s3 == update_project(s2, project["id"],
                         [progress |-> progress, note |-> note, color |-> color],
                         FALSE)
             IN  [s3 EXCEPT !.notice = "saved"]

render(s, segment_id, label, start_date, end_date, progress, note, color) ==
    LET segments == s.heap[s.segments_df]
        projects == s.heap[s.projects_df]
    IN  IF "segment_id" \notin segments.columns
        THEN [s EXCEPT !.notice = "KeyError"]
        ELSE LET segment_row == Matching(segments, "segment_id", segment_id)
             IN  IF segment_row = <<>>
                 THEN [s EXCEPT !.notice = "segment_not_found"]
                 ELSE LET project_row == Matching(projects, "id", segment_row[1]["project_id"])
                      IN  IF project_row = <<>>
                          THEN [s EXCEPT !.notice = "project_not_found"]
                          ELSE IF project_row[1]["progress"] \notin Range(PROGRESS_OPTIONS)
                          THEN [s EXCEPT !.notice = "ValueError"]
                          ELSE editor_submit(s, segment_id, project_row[1], label,
                                             start_date, end_date, progress, note, color)

----------------------------------------------------------------------------
\* Inputs of the operations.

\* update_project calls: a known id with a known and with an unknown field,
\* an id no project has.
ProjectCallInputs ==
    {[id |-> ProjectId(0), updates |-> [progress |-> "kanryo"]],
     [id |-> ProjectId(0), updates |-> [budget |-> "1"]],
     [id |-> <<"PRJ", 404>>, updates |-> [progress |-> "kanryo"]]}

\* update_segment calls: a known id with a later end date, with an end date
\* before the start date and with an unknown field, an id no segment has.
SegmentCallInputs ==
    {[id |-> Uuid(1), updates |-> [end_date |-> Day(739504)]],
     [id |-> Uuid(1), updates |-> [end_date |-> Day(739400)]],
     [id |-> Uuid(1), updates |-> [duration |-> "7"]],
     [id |-> Uuid(0), updates |-> [end_date |-> Day(739504)]]}

\* The editor's form: the segment, and the start and end dates typed in.
EditorInputs ==
    {[id |-> Uuid(1), start_date |-> Day(739433), end_date |-> Day(739504)],
     [id |-> Uuid(1), start_date |-> Day(739504), end_date |-> Day(739433)],
     [id |-> Uuid(0), start_date |-> Day(739433), end_date |-> Day(739504)]}

RowOk ==
    [name |-> "N", client |-> "C", site |-> "S", work_type |-> "doboku", owner |-> "O",
     progress |-> "yotei", start_date |-> DayAt(739495, 9), end_date |-> Day(739504)]

RowBad == [RowOk EXCEPT !.start_date = Day(739504), !.end_date = Day(739495)]

\* n good rows.
OkRows(n) == [i \in 1..n |-> RowOk]

\* Tables of up to MaxRows rows: all rows good, or exactly one row bad.
RowInputs ==
    {OkRows(n) : n \in 0..MaxRows}
    \cup UNION {{[OkRows(n) EXCEPT ![k] = RowBad] : k \in 1..n} : n \in 1..MaxRows}

IdentityMapping == [f \in Range(REQUIRED_COLUMNS) |-> f]

\* Uploaded tables with their column mappings: well-formed headers with every
\* table of RowInputs; a mapping with end_date left unset; a file without the
\* owner column; a file whose name column is called title, mapped so; a
\* mapping that names a title column the file does not have.
ImportInputs ==
    {[df |-> [columns |-> Range(REQUIRED_COLUMNS), rows |-> rows],
      mapping |-> IdentityMapping] : rows \in RowInputs}
    \cup
    {[df |-> [columns |-> Range(REQUIRED_COLUMNS), rows |-> <<RowOk>>],
      mapping |-> [f \in Range(REQUIRED_COLUMNS) \ {"end_date"} |-> f]],
     [df |-> [columns |-> Range(REQUIRED_COLUMNS) \ {"owner"},
              rows |-> <<[c \in Range(REQUIRED_COLUMNS) \ {"owner"} |-> RowOk[c]]>>],
      mapping |-> IdentityMapping],
     [df |-> [columns |-> (Range(REQUIRED_COLUMNS) \ {"name"}) \cup {"title"},
              rows |-> <<[c \in (Range(REQUIRED_COLUMNS) \ {"name"}) \cup {"title"} |->
                            IF c = "title" THEN "N" ELSE RowOk[c]]>>],
      mapping |-> [IdentityMapping EXCEPT !["name"] = "title"]],
     [df |-> [columns |-> Range(REQUIRED_COLUMNS), rows |-> <<RowOk>>],
      mapping |-> [IdentityMapping EXCEPT !["name"] = "title"]]}

\* Frames handed to replace_data: tables of one and of two rows, as
\* transform_import builds them.
ReplaceInputs ==
    {transform_import([columns |-> Range(REQUIRED_COLUMNS), rows |-> OkRows(n)],
                      IdentityMapping, 1) : n \in 1..2}

----------------------------------------------------------------------------
\* The state machine.

\* ensure_state on first load.
\* No date computation has run.
NoChart == [fn |-> "none", args |-> <<>>, prev |-> <<>>, out |-> <<>>]

Init ==
    LET seed == load_sample_data(SampleCsv)
    IN  /\ heap = (1 :> seed.projects) @@ (2 :> seed.segments)
        /\ projects_df = 1
        /\ segments_df = 2
        /\ history = <<>>
        /\ future = <<>>
        /\ nextUuid = seed.nextUuid
        /\ steps = 0
        /\ chart = NoChart

\* The handler returns: its result is the session state.
Commit(s) ==
    LET c == Collect(s)
    IN  /\ heap' = c.heap
        /\ projects_df' = c.projects_df
        /\ segments_df' = c.segments_df
        /\ history' = c.history
        /\ future' = c.future
        /\ nextUuid' = c.nextUuid
        /\ steps' = steps + 1
        /\ UNCHANGED chart

Running == steps < MaxSteps

DoPushHistory == Commit(push_history(State))

DoReplaceData ==
    \E r \in ReplaceInputs, push \in BOOLEAN :
        Commit(replace_data(State, r.projects, r.segments, push))

DoUpdateProject ==
    \E c \in ProjectCallInputs, push \in BOOLEAN :
        Commit(update_project(State, c.id, c.updates, push))

DoUpdateSegment ==
    \E c \in SegmentCallInputs, push \in BOOLEAN :
        Commit(update_segment(State, c.id, c.updates, push))

DoUndo == Commit(undo(State))

DoRedo == Commit(redo(State))

DoEditorSave ==
    \E e \in EditorInputs :
        Commit(render(State, e.id, "rev", e.start_date, e.end_date,
                      "shinko", "memo", DEFAULT_COLOR))

DoImportExecute ==
    \E i \in ImportInputs : Commit(import_execute(State, i.df, i.mapping))

PushHistory == Running /\ DoPushHistory

ReplaceData == Running /\ DoReplaceData

UpdateProject == Running /\ DoUpdateProject

UpdateSegment == Running /\ DoUpdateSegment

Undo == Running /\ DoUndo

Redo == Running /\ DoRedo

EditorSave == Running /\ DoEditorSave

ImportExecute == Running /\ DoImportExecute

Next ==
    \/ PushHistory
    \/ ReplaceData
    \/ UpdateProject
    \/ UpdateSegment
    \/ Undo
    \/ Redo
    \/ EditorSave
    \/ ImportExecute

Spec == Init /\ [][Next]_vars

----------------------------------------------------------------------------
\* A long editing session: MaxWarm operations of any kind, then
\* MAX_HISTORY + MaxOverflow saves in the editor, each of the first segment
\* on the chart and each with a label of its own.

BurstEnd == MaxWarm + MAX_HISTORY + MaxOverflow

\* The label typed into the editor at the save number n.
RevLabel(n) == "rev" \o ToString(n)

Warming == steps < MaxWarm

WarmUp ==
    /\ Warming
    /\ \/ DoPushHistory
       \/ DoReplaceData
       \/ DoUpdateProject
       \/ DoUpdateSegment
       \/ DoUndo
       \/ DoRedo
       \/ DoEditorSave
       \/ DoImportExecute

BurstSave ==
    /\ steps >= MaxWarm
    /\ steps < BurstEnd
    /\ heap[segments_df].rows # <<>>
    /\ Commit(render(State, heap[segments_df].rows[1]["segment_id"], RevLabel(steps),
                     Day(739433), Day(739504), "shinko", "memo", DEFAULT_COLOR))

NextEvict ==
    \/ WarmUp
    \/ BurstSave

SpecEvict == Init /\ [][NextEvict]_vars

----------------------------------------------------------------------------
\* A session that fills the undo stack: MAX_HISTORY saves in the editor, each
\* with a label of its own, then MaxTail operations among undo, redo, a
\* further save and update_project.

Filling == steps < MAX_HISTORY

AtFull == steps >= MAX_HISTORY /\ steps < MAX_HISTORY + MaxTail

\* A save of the first segment on the chart under the label of the step.
DoLabelSave ==
    Commit(render(State, heap[segments_df].rows[1]["segment_id"], RevLabel(steps),
                  Day(739433), Day(739504), "shinko", "memo", DEFAULT_COLOR))

FillSave == Filling /\ DoLabelSave

FullUndo == AtFull /\ DoUndo

FullRedo == AtFull /\ DoRedo

FullSave == AtFull /\ DoLabelSave

FullUpdateProject == AtFull /\ DoUpdateProject

NextFullStack ==
    \/ FillSave
    \/ FullUndo
    \/ FullRedo
    \/ FullSave
    \/ FullUpdateProject

SpecFullStack == Init /\ [][NextFullStack]_vars

----------------------------------------------------------------------------
\* The date computations of the chart, each run once on arguments drawn when
\* the page is set up: a pair of days for validate_range and, when the pair is
\* a view window, for the functions of the window; a segment range and a view
\* window for clip_to_range. A view window comes from the range picker of the
\* sidebar and never ends before it starts; a segment range can (update_segment
\* stores what it is given), and so can the two days typed into the editor.

\* The first day a window starts at: 2024-01-20, ahead of a leap February.
WindowFirst == Timestamp(2024, 1, 20)

\* The window of the tick test: 2025-01-01 to 2025-03-31.
ExampleWindow == <<Timestamp(2025, 1, 1), Timestamp(2025, 3, 31)>>

WindowInputs ==
    {<<PlusDays(WindowFirst, i), PlusDays(WindowFirst, i + n)>> :
        i \in 0..(MaxStarts - 1), n \in 0..MaxSpan}
    \cup {ExampleWindow}

\* Pairs of days validate_range is run on: the windows, and pairs that end
\* one or two days before they start.
RangeInputs ==
    WindowInputs
    \cup {<<PlusDays(WindowFirst, i + n), PlusDays(WindowFirst, i)>> :
            i \in 0..(MaxStarts - 1), n \in 1..2}

\* The first day of the segments and windows clip_to_range is run on:
\* 2024-12-30.
ClipFirst == Timestamp(2024, 12, 30)

ClipDays == {PlusDays(ClipFirst, i) : i \in 0..(MaxClipDays - 1)}

\* The call of the clip test among them.
ClipInputs ==
    {a \in ClipDays \X ClipDays \X ClipDays \X ClipDays : TsLeq(a[3], a[4])}
    \cup {<<Timestamp(2024, 12, 25), Timestamp(2025, 1, 5),
            Timestamp(2025, 1, 1), Timestamp(2025, 1, 31)>>}

InitChart ==
    LET seed == load_sample_data(SampleCsv)
    IN  /\ heap = (1 :> seed.projects) @@ (2 :> seed.segments)
        /\ projects_df = 1
        /\ segments_df = 2
        /\ history = <<>>
        /\ future = <<>>
        /\ nextUuid = seed.nextUuid
        /\ steps = 0
        /\ chart \in {[NoChart EXCEPT !.args = a] : a \in RangeInputs \cup ClipInputs}

\* The function returns: the chart holds its value, the data is untouched.
Return(fn, value) ==
    /\ chart' = [chart EXCEPT !.fn = fn, !.prev = chart.out, !.out = value]
    /\ UNCHANGED <<heap, projects_df, segments_df, history, future, nextUuid, steps>>

OfRange == chart.fn = "none" /\ Len(chart.args) = 2

OfWindow == OfRange /\ TsLeq(chart.args[1], chart.args[2])

ValidateRange ==
    /\ OfRange
    /\ Return("validate_range", validated(chart.args[1], chart.args[2]))

MakeMonthSpans ==
    /\ OfWindow
    /\ Return("make_month_spans", make_month_spans(chart.args[1], chart.args[2]))

MakeMonthLabels ==
    /\ OfWindow
    /\ Return("make_month_labels", make_month_labels(chart.args[1], chart.args[2]))

MakeTickvals ==
    /\ OfWindow
    /\ Return("make_tickvals", make_tickvals(chart.args[1], chart.args[2]))

MakeWeekLines ==
    /\ OfWindow
    /\ Return("make_week_lines", make_week_lines(chart.args[1], chart.args[2]))

ClipToRange ==
    /\ chart.fn = "none"
    /\ Len(chart.args) = 4
    /\ Return("clip_to_range",
              clip_to_range(chart.args[1], chart.args[2], chart.args[3], chart.args[4]))

\* The clipped range is clipped to the same window once more.
ClipAgain ==
    /\ chart.fn = "clip_to_range"
    /\ chart.out.kind = "range"
    /\ Return("clip_again",
              clip_to_range(chart.out.range[1], chart.out.range[2],
                            chart.args[3], chart.args[4]))

NextChart ==
    \/ ValidateRange
    \/ MakeMonthSpans
    \/ MakeMonthLabels
    \/ MakeTickvals
    \/ MakeWeekLines
    \/ ClipToRange
    \/ ClipAgain

SpecChart == InitChart /\ [][NextChart]_vars

----------------------------------------------------------------------------
\* Calls of the mutators, as values, for properties that run them from the
\* current state.

Skip == [op |-> "skip"]

MutationCalls(pushes) ==
    {[op |-> "update_project", id |-> c.id, updates |-> c.updates, push |-> p] :
        c \in ProjectCallInputs, p \in pushes}
    \cup
    {[op |-> "update_segment", id |-> c.id, updates |-> c.updates, push |-> p] :
        c \in SegmentCallInputs, p \in pushes}
    \cup
    {[op |-> "replace_data", projects |-> r.projects, segments |-> r.segments, push |-> p] :
        r \in ReplaceInputs, p \in pushes}

PushCalls == MutationCalls({TRUE})

NoPushCalls == MutationCalls({FALSE})

\* One push=False call of each mutator.
NoPushSample ==
    {[op |-> "update_project", id |-> ProjectId(0), updates |-> [progress |-> "kanryo"],
      push |-> FALSE],
     [op |-> "update_segment", id |-> Uuid(1), updates |-> [end_date |-> Day(739504)],
      push |-> FALSE]}
    \cup {c \in NoPushCalls : c.op = "replace_data" /\ Len(c.projects.rows) = 1}

Apply(s, c) ==
    CASE c.op = "skip" -> s
      [] c.op = "update_project" -> update_project(s, c.id, c.updates, c.push)
      [] c.op = "update_segment" -> update_segment(s, c.id, c.updates, c.push)
      [] c.op = "replace_data" -> replace_data(s, c.projects, c.segments, c.push)

----------------------------------------------------------------------------
\* C1: from every reachable state, push_history() followed by zero, one or
\* two mutations with push=False and then undo() leaves the projects and the
\* segments equal to what they were when push_history() was called.
C1_PushMutateUndo ==
    /\ \A m \in NoPushCalls \cup {Skip} :
        Live(undo(Apply(push_history(State), m))) = Live(State)
    /\ \A m1, m2 \in NoPushSample :
        Live(undo(Apply(Apply(push_history(State), m1), m2))) = Live(State)

\* An undo has brought back data that differs from what it undid, and the
\* same holds for a push, a push=False mutation and an undo from here.
C1_Witness ==
    /\ future # <<>>
    /\ SnapValue(State, Last(future)) # Live(State)
    /\ \E m \in NoPushCalls :
        /\ Live(Apply(push_history(State), m)) # Live(State)
        /\ Live(undo(Apply(push_history(State), m))) = Live(State)

\* C2: in every reachable state with a non-empty undo stack, undo() then
\* redo() leaves the projects and the segments equal to what they were before
\* the undo().
C2_UndoRedo ==
    history # <<>> => Live(redo(undo(State))) = Live(State)

\* The undo stack is non-empty and its newest snapshot differs from the live
\* data, so the undo changes the data and the redo that follows it finds a
\* snapshot to restore.
C2_Witness ==
    /\ history # <<>>
    /\ SnapValue(State, Last(history)) # Live(State)
    /\ Live(undo(State)) # Live(State)
    /\ redo(undo(State)).notice = "none"

\* C5: undo() on an empty undo stack and redo() on an empty redo stack raise
\* nothing and change neither the projects, the segments, the undo stack nor
\* the redo stack; they only report that there is nothing to undo or redo.
C5_EmptyStacksNoOp ==
    /\ history = <<>> => undo(State) = [State EXCEPT !.notice = "nothing_to_undo"]
    /\ future = <<>> => redo(State) = [State EXCEPT !.notice = "nothing_to_redo"]

\* After some operations both stacks are empty and the data is no longer the
\* seed data; undo() and redo() here report that there is nothing to do.
C5_Witness ==
    /\ history = <<>>
    /\ future = <<>>
    /\ Live(State) # [projects |-> load_sample_data(SampleCsv).projects,
                      segments |-> load_sample_data(SampleCsv).segments]
    /\ undo(State).notice = "nothing_to_undo"
    /\ redo(State).notice = "nothing_to_redo"

\* The label of the first segment in a collection value.
FirstLabel(v) == v.segments.rows[1]["label"]

\* The undo stack holds at most MAX_HISTORY snapshots.
C3_Bounded == Len(history) <= MAX_HISTORY

\* A save on a full stack drops the oldest entry, keeps the others in order
\* and appends the snapshot of the data as it was before the save.
C3_EvictOldest ==
    (steps >= MaxWarm /\ Len(history) = MAX_HISTORY) =>
        StackValue(State, history)' = Append(Tail(StackValue(State, history)), Live(State))

\* Once the run of saves is over the stack holds the snapshots of the last
\* MAX_HISTORY saves, oldest first.
C3_MostRecentKept ==
    steps = BurstEnd =>
        /\ Len(history) = MAX_HISTORY
        /\ \A i \in 1..MAX_HISTORY :
            FirstLabel(SnapValue(State, history[i]))
                = RevLabel(BurstEnd - MAX_HISTORY - 2 + i)
        /\ FirstLabel(Live(State)) = RevLabel(BurstEnd - 1)

\* C3: the undo stack never holds more than MAX_HISTORY = 20 snapshots; a
\* push on a full stack drops exactly the oldest entry, keeps the other 19 in
\* order and appends the new snapshot last; after MAX_HISTORY + MaxOverflow
\* (25) pushes the stack holds exactly the 20 most recent snapshots.
C3_UndoStackBound ==
    /\ [](C3_Bounded /\ C3_MostRecentKept)
    /\ [][C3_EvictOldest]_vars

\* The run of saves is over: MAX_HISTORY + MaxOverflow snapshots were pushed,
\* the stack is full and its oldest entry is not the first one pushed.
C3_Witness ==
    /\ steps = BurstEnd
    /\ Len(history) = MAX_HISTORY
    /\ FirstLabel(SnapValue(State, history[1])) = RevLabel(MaxWarm + MaxOverflow - 1)

C6_SnapshotBeforeChange ==
    /\ \A c \in PushCalls :
        /\ Apply(State, c).history # <<>>
        /\ SnapValue(Apply(State, c), Last(Apply(State, c).history)) = Live(State)
    /\ \A c \in NoPushCalls :
        /\ Apply(State, c).history = history
        /\ Apply(State, c).future = future
        /\ StackValue(Apply(State, c), history) = StackValue(State, history)
        /\ StackValue(Apply(State, c), future) = StackValue(State, future)

\* The undo stack already holds a snapshot that differs from the live data,
\* and each mutator has a push=True call that changes the data.
C6_Witness ==
    /\ history # <<>>
    /\ SnapValue(State, Last(history)) # Live(State)
    /\ \A op \in {"update_project", "update_segment", "replace_data"} :
        \E c \in PushCalls : c.op = op /\ Live(Apply(State, c)) # Live(State)

\* The live frames are not objects that a snapshot in either stack holds.
C7_NoAlias ==
    {projects_df, segments_df} \cap (StackRefs(history) \cup StackRefs(future)) = {}

\* A frame object that a stack holds before and after an operation has the
\* same contents after it.
C7_SnapshotsStable ==
    \A a \in (StackRefs(history) \cup StackRefs(future))
                \cap (StackRefs(history) \cup StackRefs(future))' :
        heap'[a] = heap[a]

\* C7: no operation changes the contents of a snapshot that stays in the undo
\* or the redo stack, and in every reachable state the live frames are not
\* the objects any snapshot in either stack holds.
C7_SnapshotIsolation ==
    /\ []C7_NoAlias
    /\ [][C7_SnapshotsStable]_vars

\* Both stacks hold snapshots, and the live data has moved away from the
\* newest snapshot of each.
C7_Witness ==
    /\ history # <<>>
    /\ future # <<>>
    /\ SnapValue(State, Last(history)) # Live(State)
    /\ SnapValue(State, Last(future)) # Live(State)

\* What C8 calls an import that fails validation: the mapping lacks a
\* required field, a mapped column is not in the file, or a row ends before
\* it starts.
Defective(i) ==
    \/ \E f \in Range(REQUIRED_COLUMNS) : f \notin DOMAIN i.mapping
    \/ \E f \in DOMAIN i.mapping : i.mapping[f] \notin i.df.columns
    \/ \E k \in DOMAIN i.df.rows :
        i.df.rows[k][i.mapping["end_date"]].day < i.df.rows[k][i.mapping["start_date"]].day

\* C8: an import whose mapping lacks a required field, whose mapped column is
\* missing or one of whose rows (first, middle or last) ends before it
\* starts, and an editor save with the end date before the start date, leave
\* the projects, the segments, the undo stack and the redo stack as they were.
C8_FailedValidationChangesNothing ==
    /\ \A i \in ImportInputs :
        Defective(i) =>
            /\ import_execute(State, i.df, i.mapping).notice
                    \in {"mapping_incomplete", "missing_columns", "invalid_range"}
            /\ [import_execute(State, i.df, i.mapping) EXCEPT !.notice = "none"] = State
    /\ \A e \in EditorInputs :
        e.end_date.day < e.start_date.day =>
            LET t == render(State, e.id, "rev", e.start_date, e.end_date,
                            "shinko", "memo", DEFAULT_COLOR)
            IN  /\ t.notice # "saved"
                /\ [t EXCEPT !.notice = "none"] = State

\* Both stacks hold snapshots (a committed import would clear the redo
\* stack), a full-length file with its last row bad is refused, and so is an
\* editor save with the dates reversed.
C8_Witness ==
    /\ history # <<>>
    /\ future # <<>>
    /\ \E i \in ImportInputs :
        /\ Len(i.df.rows) = MaxRows
        /\ MaxRows > 1
        /\ i.df.rows[MaxRows] = RowBad
        /\ import_execute(State, i.df, i.mapping).notice = "invalid_range"
    /\ \E e \in EditorInputs :
        render(State, e.id, "rev", e.start_date, e.end_date,
               "shinko", "memo", DEFAULT_COLOR).notice = "invalid_range"

\* C9 as stated: every segment of the live collection has
\* end_date >= start_date, in every state reachable by update_segment,
\* update_project, replace_data (import), undo and redo.
C9_SegmentDatesOrdered ==
    \A k \in DOMAIN heap[segments_df].rows :
        ~TsLess(heap[segments_df].rows[k]["end_date"], heap[segments_df].rows[k]["start_date"])

\* Calls of update_project and update_segment with an id no record has, or
\* with field names no record has.
UnknownCalls ==
    {c \in PushCalls \cup NoPushCalls :
        /\ c.op \in {"update_project", "update_segment"}
        /\ \/ c.id \in {<<"PRJ", 404>>, Uuid(0)}
           \/ DOMAIN c.updates \cap (PROJECT_COLUMNS \cup SEGMENT_COLUMNS) = {}}

\* C10 as stated: update_project and update_segment called with an id that no
\* record has, or with unknown field names only, do not fail and leave every
\* project and every segment unchanged.
C10_UnknownTargetIsNoOp ==
    \A c \in UnknownCalls :
        /\ Apply(State, c).notice = "none"
        /\ Live(Apply(State, c)) = Live(State)

----------------------------------------------------------------------------
\* The date functions of the chart (SpecChart).

\* C11: for a segment range with segStart <= segEnd and a view window with
\* viewStart <= viewEnd, clip_to_range returns None exactly when
\* segEnd < viewStart or segStart > viewEnd; otherwise it returns
\* (max(segStart, viewStart), min(segEnd, viewEnd)), an interval inside both
\* the segment range and the window; a segment that only touches the window
\* boundary overlaps it.
C11_ClipIsIntersection ==
    (chart.fn = "clip_to_range"
        /\ chart.args[1].day <= chart.args[2].day
        /\ chart.args[3].day <= chart.args[4].day) =>
        LET s == chart.args[1].day
            e == chart.args[2].day
            vs == chart.args[3].day
            ve == chart.args[4].day
            lo == IF s >= vs THEN s ELSE vs
            hi == IF e <= ve THEN e ELSE ve
        IN  /\ chart.out = None <=> (e < vs \/ s > ve)
            /\ chart.out # None =>
                /\ chart.out = Pair(Day(lo), Day(hi))
                /\ s <= lo /\ vs <= lo /\ lo <= hi /\ hi <= e /\ hi <= ve
            /\ (e = vs \/ s = ve) => chart.out.kind = "range"

\* clip_to_range has run on a segment of several days that ends on the day
\* the window, of several days too, starts: the clipped range is that one day.
C11_Witness ==
    /\ chart.fn = "clip_to_range"
    /\ chart.args[1].day < chart.args[2].day
    /\ chart.args[3].day < chart.args[4].day
    /\ chart.args[2] = chart.args[3]
    /\ chart.out = Pair(chart.args[3], chart.args[3])

C13_ValidateRange ==
    chart.fn = "validate_range" =>
        IF chart.args[1].day <= chart.args[2].day
        THEN chart.out = Pair(chart.args[1], chart.args[2])
        ELSE chart.out = ValueError

\* validate_range has accepted a range of a single day.
C13_Witness ==
    /\ chart.fn = "validate_range"
    /\ chart.args[1] = chart.args[2]
    /\ chart.out = Pair(chart.args[1], chart.args[1])

\* validate_range has refused a range that ends the day before it starts.
C13_WitnessRefused ==
    /\ chart.fn = "validate_range"
    /\ chart.args[2].day + 1 = chart.args[1].day
    /\ chart.out = ValueError

LeapYear(year) == (year % 4 = 0 /\ year % 100 # 0) \/ year % 400 = 0

\* The length of a month, from the calendar rule.
DaysInMonth(year, month) ==
    IF month = 2 THEN (IF LeapYear(year) THEN 29 ELSE 28)
    ELSE IF month \in {4, 6, 9, 11} THEN 30 ELSE 31

\* The days of the window that a tick belongs on.
TickDaysOf(start, end) ==
    {Day(d) : d \in {o \in start.day..end.day :
        LET c == Civil(Day(o))
        IN  c.day \in {6, 12, 18, 24, DaysInMonth(c.year, c.month)}}}

\* The sequence is in strictly ascending order.
Ascending(seq) == \A i \in 1..(Len(seq) - 1) : TsLess(seq[i], seq[i + 1])

\* C14: make_tickvals returns exactly the dates d of the window, start <= d <=
\* end, whose day of the month is 6, 12, 18, 24 or the last day of the month
\* (28, 29, 30 or 31), in strictly ascending order and none twice; for
\* 2025-01-01..2025-03-31 it starts with January 6 and 12, its February ticks
\* end at the 28th and its last tick is March 31.
C14_Tickvals ==
    chart.fn = "make_tickvals" =>
        /\ Range(chart.out) = TickDaysOf(chart.args[1], chart.args[2])
        /\ Ascending(chart.out)
        /\ chart.args = ExampleWindow =>
            /\ chart.out[1] = Timestamp(2025, 1, 6)
            /\ chart.out[2] = Timestamp(2025, 1, 12)
            /\ Last(chart.out) = Timestamp(2025, 3, 31)
            /\ Timestamp(2025, 2, 28) \in Range(chart.out)
            /\ \A i \in DOMAIN chart.out :
                Civil(chart.out[i]).month = 2 => Civil(chart.out[i]).day <= 28

\* make_tickvals has run on a window that holds the last day of a leap
\* February and ends on a tick day: both are ticks.
C14_Witness ==
    /\ chart.fn = "make_tickvals"
    /\ Timestamp(2024, 2, 29) \in Range(chart.out)
    /\ Timestamp(2024, 1, 31) \in Range(chart.out)
    /\ Last(chart.out) = chart.args[2]
    /\ Len(chart.out) >= 5

\* make_tickvals has run on the window of the example.
C14_WitnessExample ==
    /\ chart.fn = "make_tickvals"
    /\ chart.args = ExampleWindow
    /\ Len(chart.out) = 15

\* C15: make_week_lines returns exactly the Mondays d with start <= d <= end,
\* start included when it is a Monday, in ascending order and seven days
\* apart; the empty list when the window holds no Monday.
C15_WeekLines ==
    chart.fn = "make_week_lines" =>
        /\ Range(chart.out) =
            {Day(d) : d \in {o \in chart.args[1].day..chart.args[2].day : (o + 6) % 7 = 0}}
        /\ \A i \in 1..(Len(chart.out) - 1) : chart.out[i + 1] = PlusDays(chart.out[i], 7)
        /\ \A i \in DOMAIN chart.out : chart.out[i].tod = 0

\* make_week_lines has run on a window that starts on a Monday and holds
\* three Mondays or more.
C15_Witness ==
    /\ chart.fn = "make_week_lines"
    /\ weekday(chart.args[1]) = 0
    /\ Len(chart.out) >= 3
    /\ chart.out[1] = chart.args[1]

\* make_week_lines has run on a window of several days without a Monday.
C15_WitnessEmpty ==
    /\ chart.fn = "make_week_lines"
    /\ chart.args[1].day + 3 <= chart.args[2].day
    /\ chart.out = <<>>

\* C16 as stated: make_month_labels returns one label per month touching the
\* window, in the order of make_month_spans, each positioned at the temporal
\* midpoint of that month's span as make_month_spans returns it (the overlap
\* of the month with the window).
C16_LabelsAtSpanMidpoints ==
    chart.fn = "make_month_labels" =>
        LET spans == make_month_spans(chart.args[1], chart.args[2])
        IN  /\ Len(chart.out) = Len(spans)
            /\ \A i \in DOMAIN spans :
                /\ chart.out[i][2] = MonthText(spans[i][1])
                /\ chart.out[i][1] = Midpoint(spans[i][1], spans[i][2])

----------------------------------------------------------------------------
\* Runs of undo and redo.

RECURSIVE UndoTimes(_, _)
\* n consecutive calls of undo().
UndoTimes(s, n) == IF n = 0 THEN s ELSE UndoTimes(undo(s), n - 1)

RECURSIVE RedoTimes(_, _)
\* n consecutive calls of redo().
RedoTimes(s, n) == IF n = 0 THEN s ELSE RedoTimes(redo(s), n - 1)

\* C17 as stated: for every n up to the length of the undo stack, n undo()
\* calls followed by n redo() calls all succeed, end with an empty redo stack
\* and leave the projects and the segments as they were before the first
\* undo().
C17_RedoStackEmptyAfterRoundTrip ==
    \A n \in 1..Len(history) :
        LET r == RedoTimes(UndoTimes(State, n), n)
        IN  /\ r.notice = "none"
            /\ r.future = <<>>
            /\ Live(r) = Live(State)

\* C17, amended: redo() removes only the top entry of the redo stack and
\* keeps the entries below it; for every n up to the length of the undo
\* stack, n undo() calls followed by n redo() calls all succeed, end with the
\* redo stack as it was before the first undo() (empty if it was empty) and
\* leave the projects and the segments as they were before the first undo().
C17_UndoRedoRoundTrip ==
    /\ future # <<>> =>
        StackValue(redo(State), redo(State).future) = Front(StackValue(State, future))
    /\ \A n \in 1..Len(history) :
        LET r == RedoTimes(UndoTimes(State, n), n)
        IN  /\ r.notice = "none"
            /\ StackValue(r, r.future) = StackValue(State, future)
            /\ Live(r) = Live(State)

\* The undo stack holds two snapshots or more and the redo stack none; the
\* first undo changes the data and so does the second, and two redos follow.
C17_Witness ==
    /\ Len(history) >= 2
    /\ future = <<>>
    /\ Live(UndoTimes(State, 1)) # Live(State)
    /\ Live(UndoTimes(State, 2)) # Live(UndoTimes(State, 1))
    /\ RedoTimes(UndoTimes(State, 2), 2).notice = "none"

\* C18: in every reachable state len(undo stack) + len(redo stack) <=
\* MAX_HISTORY; so the push_history() inside redo() evicts no undo entry, and
\* undo() and redo() move one snapshot from one stack to the other and lose
\* none.
C18_StacksShareTheBound ==
    /\ Len(history) + Len(future) <= MAX_HISTORY
    /\ future # <<>> =>
        LET r == redo(State)
        IN  /\ StackValue(r, r.history) = Append(StackValue(State, history), Live(State))
            /\ StackValue(r, r.future) = Front(StackValue(State, future))
            /\ Live(r) = SnapValue(State, Last(future))
    /\ history # <<>> =>
        LET u == undo(State)
        IN  /\ StackValue(u, u.history) = Front(StackValue(State, history))
            /\ StackValue(u, u.future) = Append(StackValue(State, future), Live(State))
            /\ Live(u) = SnapValue(State, Last(history))

\* The two stacks hold MAX_HISTORY snapshots between them and there is
\* something to redo: the redo pushes onto an undo stack one short of full.
C18_Witness ==
    /\ Len(history) + Len(future) = MAX_HISTORY
    /\ Len(future) >= 2
    /\ SnapValue(State, Last(future)) # Live(State)

----------------------------------------------------------------------------
\* Identity fields (Spec).

\* Calls that name an identity field in their update set.
IdentityCalls ==
    {[op |-> "update_project", id |-> ProjectId(0), updates |-> [id |-> ProjectId(1)],
      push |-> TRUE],
     [op |-> "update_segment", id |-> Uuid(1), updates |-> [segment_id |-> Uuid(2)],
      push |-> TRUE],
     [op |-> "update_segment", id |-> Uuid(1), updates |-> [project_id |-> ProjectId(1)],
      push |-> TRUE]}

\* The two rows agree outside the columns of `cols`.
SameOutside(a, b, cols) ==
    DOMAIN a = DOMAIN b /\ \A c \in DOMAIN a \ cols : a[c] = b[c]

\* C19 as stated: update_segment changes only label, start_date and end_date
\* of the segment whose segment_id matches, update_project only non-identity
\* fields of the project whose id matches; no call of either, with any update
\* set, changes a project's id, a segment's segment_id or project_id, or any
\* field of a record that does not match.
C19_IdentityStable ==
    \A c \in IdentityCalls \cup {m \in PushCalls \cup NoPushCalls : m.op # "replace_data"} :
        LET r == Apply(State, c)
            before == Live(State)
            after == Live(r)
        IN  r.notice = "none" =>
            /\ DOMAIN after.projects.rows = DOMAIN before.projects.rows
            /\ DOMAIN after.segments.rows = DOMAIN before.segments.rows
            /\ \A i \in DOMAIN before.projects.rows :
                IF c.op = "update_project" /\ before.projects.rows[i]["id"] = c.id
                THEN SameOutside(after.projects.rows[i], before.projects.rows[i],
                                 PROJECT_COLUMNS \ {"id"})
                ELSE after.projects.rows[i] = before.projects.rows[i]
            /\ \A k \in DOMAIN before.segments.rows :
                IF c.op = "update_segment" /\ before.segments.rows[k]["segment_id"] = c.id
                THEN SameOutside(after.segments.rows[k], before.segments.rows[k],
                                 {"label", "start_date", "end_date"})
                ELSE after.segments.rows[k] = before.segments.rows[k]

----------------------------------------------------------------------------
\* The save of the editor (SpecFullStack).

\* The result of a save of the first segment on the chart, with the form
\* filled in with values that are not the current ones.
SaveResult ==
    render(State, heap[segments_df].rows[1]["segment_id"], "edited",
           Day(739433), Day(739499), "kanryo", "checked", "#000000")

\* C20: a successful save in the editor pushes exactly one snapshot, taken
\* before the segment update and the project update, so the undo stack grows
\* by one (or stays at MAX_HISTORY) and a single undo() restores the segment's
\* label and dates and the project's progress, note and color to their values
\* before the save.
C20_SaveIsOneUndoStep ==
    SaveResult.notice = "saved" =>
        /\ Len(SaveResult.history) =
            (IF Len(history) < MAX_HISTORY THEN Len(history) + 1 ELSE MAX_HISTORY)
        /\ StackValue(SaveResult, SaveResult.history) =
            (IF Len(history) < MAX_HISTORY
             THEN Append(StackValue(State, history), Live(State))
             ELSE Append(Tail(StackValue(State, history)), Live(State)))
        /\ Live(undo(SaveResult)) = Live(State)
        /\ undo(SaveResult).notice = "saved"

\* The undo stack is full and a save changes both the segment and its
\* project.
C20_Witness ==
    /\ Len(history) = MAX_HISTORY
    /\ SaveResult.notice = "saved"
    /\ Live(SaveResult).segments # Live(State).segments
    /\ Live(SaveResult).projects # Live(State).projects

====
